---- MODULE Spec2Model ----
(***************************************************************************)
(* GSObjectModel of piff/gsobject_model.py as a state machine.             *)
(*                                                                         *)
(* A caller holds one Star (cur) and calls fit, initialize, reflux and     *)
(* draw on one Model (cfg).  With two workers on the Model, other is the   *)
(* worker that is not running (NoneV: there is one caller only).  Every call runs on a call stack of frames;    *)
(* fit and initialize call each other and reflux, so the frames are        *)
(* explicit.  No function of the source catches an exception: a raise      *)
(* unwinds the whole stack to the caller.                                  *)
(*                                                                         *)
(* Numbers are fixed-point: the float x is the integer x * Unit.  The      *)
(* renderer (galsim drawImage), the moment estimator (piff.util.hsm) and   *)
(* the minimizer (lmfit.minimize) are outside the repository's sources:    *)
(* their outputs are drawn from small sets.  include_pixel only selects    *)
(* the renderer's method string and is not part of the state.              *)
(***************************************************************************)
EXTENDS Integers, Sequences, FiniteSets, TLC

VARIABLES cfg, heap, cur, stack, result, calls, trace, entry, lineage, other

vars == <<cfg, heap, cur, stack, result, calls, trace, entry, lineage, other>>

(* ---------------------------- bounds ----------------------------------- *)

\* fixed-point resolution: the float 1.0 is the integer Unit
Unit == 2
\* pixels of a stamp
NPix == 2
\* top-level calls the caller chains on its Star
MaxCalls == 2
\* fixed-point resolution of the basis round trip: the float 1.0 is Fine
Fine == 100

(* ---------------------------- values ----------------------------------- *)

\* Python's None for an optional number or array, and a present value
NoneV == <<>>
Some(v) == <<v>>
IsNone(x) == x = <<>>
Val(x) == x[1]

Pix == 1..NPix

Pos(x) == IF x < 1 THEN 1 ELSE x
Clamp(x, m) == IF x > m THEN m ELSE IF x < 0 - m THEN 0 - m ELSE x

RECURSIVE IsqrtIn(_, _, _)
\* the integer root of n by bisection: lo * lo <= n < hi * hi
IsqrtIn(n, lo, hi) ==
    IF hi - lo <= 1 THEN lo
    ELSE IF (lo + hi) \div 2 <= n \div ((lo + hi) \div 2)
         THEN IsqrtIn(n, (lo + hi) \div 2, hi)
         ELSE IsqrtIn(n, lo, (lo + hi) \div 2)
\* np.sqrt in fixed point, on an integer radicand already scaled
Isqrt(n) == IF n <= 0 THEN 0 ELSE IsqrtIn(n, 1, n + 1)

\* a * b and a / b of two fixed-point numbers
FMul(a, b) == (a * b) \div Unit
FDiv(a, b) == (a * Unit) \div b

RECURSIVE SumSeq(_, _)
SumSeq(s, i) == IF i > NPix THEN 0 ELSE s[i] + SumSeq(s, i + 1)
\* np.sum over an array
NpSum(s) == SumSeq(s, 1)

\* np.count_nonzero over an array
count_nonzero(w) == Cardinality({i \in DOMAIN w : w[i] # 0})

\* outcome of a computation that may raise: err = "ok" or the exception
Ok(v) == [err |-> "ok", val |-> v]
Err(e) == [err |-> e, val |-> <<>>]

(* ------------------- collaborators' output sets ------------------------ *)

\* pixel arrays the renderer produces for a unit-flux profile
Profiles == { [i \in Pix |-> Unit * i] }
\* pixel arrays of the stars the caller supplies
Images == { [i \in Pix |-> Unit], [i \in Pix |-> 2 * Unit * i] }
\* weight arrays of the stars the caller supplies (at least one nonzero pixel)
Weights == { [i \in Pix |-> Unit], [i \in Pix |-> IF i = 1 THEN 0 ELSE Unit] }
\* (flux, cenu, cenv, size, g1, g2) the estimator measures on a star's data
DataMoments == { <<2 * Unit, 1, 0, 2 * Unit, 1, 0>> }
\* (flux, cenu, cenv, size, g1, g2) the estimator measures on a rendered model
RefMoments == { <<Unit, 0, 0, Unit, 0, 0>>, <<2 * Unit, 1, 1, Unit, 0, 1>> }
\* status flags of the estimator
Flags == {0, 1}
\* what hsm(self.draw(star)) returns: the moments with a flag, and a flagged
\* measurement whose other fields are not moments (a shear of magnitude 2)
RefEstimates ==
    { ref \o <<flag>> : ref \in RefMoments, flag \in Flags }
       \cup { <<Unit, 0, 0, Unit, 2 * Unit, 0, 1>> }
\* values the minimizer proposes for (flux, du, dv, scale, g1, g2)
MinMoves == { <<2 * Unit, 1, 0, Unit, 0, 0>> }
\* chi-square values the minimizer reports
MinChisqr == {0}
\* the opaque Fisher blocks of a StarFit
Blocks == { NoneV, Some(1) }

(* ------------------------- __init__ ------------------------------------ *)

\* mutant: the count of the forced-center layout in both configurations
nparams_three(force_model_center) == 3

nparams(force_model_center) == IF force_model_center THEN 3 ELSE 5

Model(fastfit, force_model_center, unnormalized_basis) ==
    [ fastfit |-> fastfit,
      force_model_center |-> force_model_center,
      unnormalized_basis |-> unnormalized_basis,
      nparams |-> nparams(force_model_center) ]

(* ------------------------- galsim.Shear -------------------------------- *)

\* The shear and basis operators take the fixed-point resolution u of their
\* operands; the operations of the Model run them at Unit.

\* galsim.Shear(g1=, g2=) and Shear(e1=, e2=) raise when the magnitude exceeds 1
ShearOkAt(u, a, b) == a * a + b * b <= u * u
ShearOk(a, b) == ShearOkAt(Unit, a, b)

\* Shear.e1, Shear.e2 of Shear(g1, g2): distortion e = 2 g / (1 + |g|^2)
ShearE(u, g, g1, g2) == (2 * g * u * u) \div (u * u + g1 * g1 + g2 * g2)

\* Shear.g1, Shear.g2 of Shear(e1, e2): g = e / (1 + sqrt(1 - |e|^2))
ShearG(u, e, e1, e2) == (e * u) \div (u + Isqrt(u * u - e1 * e1 - e2 * e2))

\* param_shear += (shape - ref_shape): the composed shear stays inside the unit disc
ShearAdd(p, s, r) == Clamp(p + s - r, Unit \div 2)

(* ----------------- the two basis conversions --------------------------- *)

\* e0, e1, e2 from the scale and the distortion (e1norm, e2norm)
to_unnormalized(u, scale, e1norm, e2norm, e0) ==
    <<e0, (e1norm * e0) \div u, (e2norm * e0) \div u>>

to_unnormalized_e0(u, scale, e1norm, e2norm) ==
    IF u * u - e1norm * e1norm - e2norm * e2norm <= 0 THEN Err("ZeroDivisionError")
    ELSE Ok(to_unnormalized(u, scale, e1norm, e2norm,
              Pos(Isqrt((4 * scale * scale * scale * scale)
                        \div (u * u - e1norm * e1norm - e2norm * e2norm)))))

convert_to_unnormalized_basis_at(u, scale, g1, g2) ==
    IF ~ShearOkAt(u, g1, g2) THEN Err("GalSimRangeError")
    ELSE to_unnormalized_e0(u, scale, ShearE(u, g1, g1, g2), ShearE(u, g2, g1, g2))

convert_to_unnormalized_basis(scale, g1, g2) ==
    convert_to_unnormalized_basis_at(Unit, scale, g1, g2)

\* mutant: the scale without the factor 0.5 under the outer root
from_unnormalized_nohalf(u, e0, e1, e2, e1norm, e2norm) ==
    IF ~ShearOkAt(u, e1norm, e2norm) THEN Err("GalSimRangeError")
    ELSE Ok(<< Pos(Isqrt(u * Isqrt(e0 * e0 - e1 * e1 - e2 * e2))),
               ShearG(u, e1norm, e1norm, e2norm),
               ShearG(u, e2norm, e1norm, e2norm) >>)

\* scale, g1, g2 from e0, e1, e2 and the distortion (e1norm, e2norm)
from_unnormalized(u, e0, e1, e2, e1norm, e2norm) ==
    IF ~ShearOkAt(u, e1norm, e2norm) THEN Err("GalSimRangeError")
    ELSE Ok(<< Pos(Isqrt((u * Isqrt(e0 * e0 - e1 * e1 - e2 * e2)) \div 2)),
               ShearG(u, e1norm, e1norm, e2norm),
               ShearG(u, e2norm, e1norm, e2norm) >>)

convert_from_unnormalized_basis_at(u, e0, e1, e2) ==
    IF e0 = 0 THEN Err("ZeroDivisionError")
    ELSE from_unnormalized(u, e0, e1, e2, (e1 * u) \div e0, (e2 * u) \div e0)

convert_from_unnormalized_basis(e0, e1, e2) ==
    convert_from_unnormalized_basis_at(Unit, e0, e1, e2)

(* ------------------------- StarFit, Star ------------------------------- *)

\* StarFit(params, flux, center, chisq, dof, alpha, beta)
StarFit(params, flux, center, chisq, dof, alpha, beta) ==
    [ params |-> params, flux |-> flux, center |-> center,
      chisq |-> chisq, dof |-> dof, alpha |-> alpha, beta |-> beta ]

\* Star(data, fit): data is a reference into the heap of StarData objects
Star(data, fit) == [ data |-> data, fit |-> fit ]

\* StarData: image and weight arrays, properties['hsm'] (NoneV: key absent);
\* est is what the moment estimator returns for this image
StarData(image, weight, hsm, est) ==
    [ image |-> image, weight |-> weight, hsm |-> hsm, est |-> est ]

\* tuple unpacking of star.fit.params into n names
Unpack(params, n) ==
    IF IsNone(params) THEN Err("TypeError")
    ELSE IF Len(params) # n THEN Err("ValueError")
    ELSE Ok(params)

(* ------------------------- getProfile, draw ---------------------------- *)

\* self.gsobj.dilate(scale).shear(g1=g1, g2=g2).shift(du, dv)
profile(du, dv, n) ==
    IF n.err # "ok" THEN n
    ELSE IF ~ShearOk(n.val[2], n.val[3]) THEN Err("GalSimRangeError")
    ELSE Ok(<<du, dv, n.val[1], n.val[2], n.val[3]>>)

\* the scale and shape of params, from position k on, in the normalized basis
normalized(c, params, k) ==
    IF c.unnormalized_basis
    THEN convert_from_unnormalized_basis(params[k + 1], params[k + 2], params[k + 3])
    ELSE Ok(<<params[k + 1], params[k + 2], params[k + 3]>>)

\* the profile as (du, dv, scale, g1, g2) in the normalized basis
getProfile(c, params) ==
    IF c.force_model_center
    THEN IF Unpack(params, 3).err # "ok" THEN Unpack(params, 3)
         ELSE profile(0, 0, normalized(c, params, 0))
    ELSE IF Unpack(params, 5).err # "ok" THEN Unpack(params, 5)
         ELSE profile(params[1], params[2], normalized(c, params, 2))

\* prof * flux drawn on the pixel grid: pixels is the renderer's unit-flux array
drawImage(flux, pixels) == [i \in Pix |-> FMul(flux, pixels[i])]

\* draw(star): the image of the drawn model, or the exception getProfile raises
draw(c, fit, pixels) ==
    IF getProfile(c, fit.params).err # "ok" THEN getProfile(c, fit.params)
    ELSE Ok(drawImage(fit.flux, pixels))

(* ------------------------- moment_fit ---------------------------------- *)

\* star.fit.params (and star.fit.center) as (du, dv, scale, g1, g2)
UnpackFit(c, fit) ==
    IF c.force_model_center
    THEN IF Unpack(fit.params, 3).err # "ok" THEN Unpack(fit.params, 3)
         ELSE Ok(<<fit.center[1], fit.center[2], fit.params[1], fit.params[2], fit.params[3]>>)
    ELSE Unpack(fit.params, 5)

\* lines 130-135: the six values returned, in the basis of the configuration
moment_fit_result(flux, du, dv, back) ==
    IF back.err # "ok" THEN back
    ELSE Ok(<<flux, du, dv, back.val[1], back.val[2], back.val[3]>>)

\* lines 117-135: the moment-matching update of (flux, du, dv, scale, shear)
moment_fit_update(c, d, ref, flux, du, dv, param_scale, param_g1, param_g2) ==
    IF ~ShearOk(param_g1, param_g2) THEN Err("GalSimRangeError")
    ELSE moment_fit_result(
            Pos(FMul(flux, FDiv(d[1], ref[1]))),
            du + d[2] - ref[2],
            dv + d[3] - ref[3],
            IF c.unnormalized_basis
            THEN convert_to_unnormalized_basis(Pos(FMul(param_scale, FDiv(d[4], ref[4]))),
                                               ShearAdd(param_g1, d[5], ref[5]),
                                               ShearAdd(param_g2, d[6], ref[6]))
            ELSE Ok(<< Pos(FMul(param_scale, FDiv(d[4], ref[4]))),
                       ShearAdd(param_g1, d[5], ref[5]),
                       ShearAdd(param_g2, d[6], ref[6]) >>))

\* lines 111-115: n is (scale, g1, g2) converted to the normalized basis; the
\* third converted value is bound to param_2, so param_g2 keeps the value
\* unpacked from star.fit.params
moment_fit_normalized(c, d, ref, flux, p, n) ==
    IF n.err # "ok" THEN n
    ELSE moment_fit_update(c, d, ref, flux, p[1], p[2], n.val[1], n.val[2], p[5])

\* lines 105-115: p is star.fit.params (and center) as (du, dv, scale, g1, g2)
moment_fit_params(c, d, ref, flux, p) ==
    IF p.err # "ok" THEN p
    ELSE moment_fit_normalized(c, d, ref, flux, p.val,
            IF c.unnormalized_basis
            THEN convert_from_unnormalized_basis(p.val[3], p.val[4], p.val[5])
            ELSE Ok(<<p.val[3], p.val[4], p.val[5]>>))

\* lines 97-103: d is the data's moments, prof the profile draw(star) renders
moment_fit_measured(c, d, prof, fit, ref) ==
    IF ~ShearOk(d[5], d[6]) THEN Err("GalSimRangeError")
    ELSE IF prof.err # "ok" THEN prof
    ELSE IF ~ShearOk(ref[5], ref[6]) THEN Err("GalSimRangeError")
    ELSE IF ref[7] # 0 THEN Err("ModelFitError")
    ELSE moment_fit_params(c, d, ref, fit.flux, UnpackFit(c, fit))

\* hsmprop is star.data.properties['hsm'] (NoneV: no such key), ref is what
\* hsm(self.draw(star)) returns: (flux, cenu, cenv, size, g1, g2, flag)
moment_fit(c, hsmprop, fit, ref) ==
    IF IsNone(hsmprop) THEN Err("KeyError")
    ELSE moment_fit_measured(c, Val(hsmprop), getProfile(c, fit.params), fit, ref)

(* ------------------- _lmfit_params, _lmfit_minimize, lmfit ------------- *)

\* lmfit.Parameter: name, value, vary, min, max (NoneV: unbounded)
Parameter(name, value, vary, min, max) ==
    [ name |-> name, value |-> value, vary |-> vary, min |-> min, max |-> max ]

\* mutant: the bound of the normalized basis in both bases
maxg_normalized(c) == (7 * Unit) \div 10

\* maxg = [0.7, 5][self._unnormalized_basis]
maxg(c) == IF c.unnormalized_basis THEN 5 * Unit ELSE (7 * Unit) \div 10

\* lines 232-244: the six Parameters, in this order
Parameters(c, v, vary_params, vary_flux, vary_center) ==
    << Parameter("flux", v[1], vary_flux, Some(0), NoneV),
       Parameter("du", v[2], vary_center, NoneV, NoneV),
       Parameter("dv", v[3], vary_center, NoneV, NoneV),
       Parameter(IF c.unnormalized_basis THEN "e0" ELSE "scale", v[4], vary_params,
                 Some(0), NoneV),
       Parameter(IF c.unnormalized_basis THEN "e1" ELSE "g1", v[5], vary_params,
                 Some(0 - maxg(c)), Some(maxg(c))),
       Parameter(IF c.unnormalized_basis THEN "e2" ELSE "g2", v[6], vary_params,
                 Some(0 - maxg(c)), Some(maxg(c))) >>

\* lines 219-222: seven names are unpacked from the six values of moment_fit
lmfit_seed_moments(m) == IF m.err # "ok" THEN m ELSE Err("ValueError")

\* lines 225-230: the initial values from star.fit
lmfit_seed_fit(flux, p) ==
    IF p.err # "ok" THEN p
    ELSE Ok(<<flux, p.val[1], p.val[2], p.val[3], p.val[4], p.val[5]>>)

lmfit_params_of(c, init, vary_params, vary_flux, vary_center) ==
    IF init.err # "ok" THEN init
    ELSE Ok(Parameters(c, init.val, vary_params, vary_flux, vary_center))

_lmfit_params(c, hsmprop, fit, ref, vary_params, vary_flux, vary_center) ==
    lmfit_params_of(c,
        IF IsNone(fit.params)
        THEN lmfit_seed_moments(moment_fit(c, hsmprop, fit, ref))
        ELSE lmfit_seed_fit(fit.flux, UnpackFit(c, fit)),
        vary_params, vary_flux, vary_center)

\* a value the minimizer proposes, kept inside the parameter's bounds
Bounded(par, x) ==
    LET lo == IF IsNone(par.min) THEN x ELSE IF x < Val(par.min) THEN Val(par.min) ELSE x
    IN  IF IsNone(par.max) THEN lo ELSE IF lo > Val(par.max) THEN Val(par.max) ELSE lo

\* lmfit.minimize: free parameters move to the proposed values, fixed ones stay
_lmfit_minimize(params, move, success, chisqr) ==
    [ params  |-> [i \in 1..6 |-> IF params[i].vary
                                  THEN [params[i] EXCEPT !.value = Bounded(params[i], move[i])]
                                  ELSE params[i]],
      success |-> success,
      chisqr  |-> chisqr ]

\* results.params.valuesdict().values()
valuesdict(results) == [i \in 1..6 |-> results.params[i].value]

\* lmfit's tail: the six values, or RuntimeError when the minimizer failed
lmfit(results) ==
    IF ~results.success THEN Err("RuntimeError") ELSE Ok(valuesdict(results))

(* ------------------------- with_hsm ------------------------------------ *)

\* attribute names of a dict object: the keys of a dict are not attributes
DictAttrs == {"keys", "values", "items", "get", "pop", "update", "copy"}

\* hasattr(star.data.properties, 'hsm'): properties is a dict
hasattr_hsm(d) == "hsm" \in DictAttrs

\* mutant: the moments are stored in star.data itself
with_hsm_inplace(h, data) == data

\* where with_hsm stores the measured moments: in sd = star.data.copy(),
\* a new StarData object
with_hsm_target(h, data) == Len(h) + 1

\* the exception with_hsm raises on a nonzero flag
with_hsm_error == "RuntimeError"

(* ------------------------- fit ----------------------------------------- *)

\* mutant: fit follows the configured flag whatever its argument is
effective_fastfit_configured(c, fastfit) == c.fastfit

\* lines 314-315: the fastfit argument, or the configured flag when it is None
effective_fastfit(c, fastfit) == IF IsNone(fastfit) THEN c.fastfit ELSE Val(fastfit)

\* chisq = np.sum(weight * (image - model_image)**2); the products are summed
\* at full precision and scaled back to fixed point once
chisq_of(weight, image, model_image) ==
    NpSum([i \in Pix |-> weight[i] * (image[i] - model_image[i]) * (image[i] - model_image[i])])
        \div (Unit * Unit)

\* mutant: the StarFit fit builds carries Fisher-information blocks
fit_starfit_blocks(c, d, params, flux, center, prof, pixels) ==
    IF prof.err # "ok" THEN prof
    ELSE Ok(StarFit(params, flux, center,
                    Some(chisq_of(d.weight, d.image, drawImage(flux, pixels))),
                    Some(count_nonzero(d.weight) - c.nparams),
                    Some(1), Some(1)))

\* lines 334-341: chisq and dof of the fitted profile, and the StarFit
fit_starfit(c, d, params, flux, center, prof, pixels) ==
    IF prof.err # "ok" THEN prof
    ELSE Ok(StarFit(params, flux, center,
                    Some(chisq_of(d.weight, d.image, drawImage(flux, pixels))),
                    Some(count_nonzero(d.weight) - c.nparams),
                    NoneV, NoneV))

\* lines 325-330: params and center from the six fitted values
fit_params(c, v) ==
    IF c.force_model_center THEN <<v[4], v[5], v[6]>> ELSE <<v[2], v[3], v[4], v[5], v[6]>>

\* mutant: the fitted center is recorded in both configurations
fit_center_free(c, v) == <<v[2], v[3]>>

fit_center_of(c, v) ==
    IF c.force_model_center THEN <<v[2], v[3]>> ELSE <<0, 0>>

\* the tail of fit: the StarFit built from the six fitted values
fit_pack(c, d, v, pixels) ==
    fit_starfit(c, d, fit_params(c, v), v[1], fit_center_of(c, v),
                getProfile(c, fit_params(c, v)), pixels)

(* ------------------------- initialize ---------------------------------- *)

\* mutant: the star is seeded with params still unset
default_fit_unset(c) ==
    StarFit(NoneV, Unit, <<0, 0>>, NoneV, NoneV, NoneV, NoneV)

\* mutant: initialize ends with reflux's default fit_center
initialize_fit_center_default == TRUE

\* fit_center of the reflux that ends initialize
initialize_fit_center == FALSE

\* the StarFit initialize gives a star whose params are unset
default_fit(c) ==
    StarFit(IF c.force_model_center THEN <<Unit, 0, 0>> ELSE <<0, 0, Unit, 0, 0>>,
            Unit, <<0, 0>>, NoneV, NoneV, NoneV, NoneV)

(* ------------------------- reflux -------------------------------------- *)

\* mutant: the center is fitted whenever it is requested
do_center_requested(c, fit_center) == fit_center

\* mutant: the center is fitted whenever it is free
do_center_free(c, fit_center) == c.force_model_center

do_center(c, fit_center) == fit_center /\ c.force_model_center

\* the StarFit of the flux+center branch
reflux_center(d, fit, results) ==
    StarFit(fit.params, results.params[1].value,
            <<results.params[2].value, results.params[3].value>>,
            Some(results.chisqr), Some(count_nonzero(d.weight) - 3),
            fit.alpha, fit.beta)

\* line 419: new_chisq = np.sum(weight * (image - flux_ratio*model_image)**2)
\* for the ratio r = <<n, d>>: the sum is taken over the common denominator
\* and scaled back to fixed point once
new_chisq_of(weight, image, model_image, r) ==
    NpSum([i \in Pix |-> weight[i] * (image[i] * r[2] - r[1] * model_image[i])
                                   * (image[i] * r[2] - r[1] * model_image[i])])
        \div (r[2] * r[2] * Unit * Unit)

\* mutant: the StarFit is rebuilt without alpha and beta, as fit does
reflux_starfit_noblocks(d, fit, model_image, flux_ratio) ==
    StarFit(fit.params, Pos((fit.flux * flux_ratio[1]) \div flux_ratio[2]), fit.center,
            Some(new_chisq_of(d.weight, d.image, model_image, flux_ratio)),
            Some(count_nonzero(d.weight) - 1),
            NoneV, NoneV)

\* lines 419-426: the StarFit of the flux-only branch
reflux_starfit(d, fit, model_image, flux_ratio) ==
    StarFit(fit.params, Pos((fit.flux * flux_ratio[1]) \div flux_ratio[2]), fit.center,
            Some(new_chisq_of(d.weight, d.image, model_image, flux_ratio)),
            Some(count_nonzero(d.weight) - 1),
            fit.alpha, fit.beta)

\* mutant: the regression of the model on the data, the inverse ratio
flux_ratio_inverse(weight, image, model_image) ==
    << NpSum([i \in Pix |-> weight[i] * image[i] * model_image[i]]),
       NpSum([i \in Pix |-> weight[i] * image[i] * image[i]]) >>

\* lines 417-418: the least-squares flux ratio, as the pair <<numerator,
\* denominator>> of the two sums: the quotient is not rounded before it is used
flux_ratio_of(weight, image, model_image) ==
    << NpSum([i \in Pix |-> weight[i] * image[i] * model_image[i]]),
       NpSum([i \in Pix |-> weight[i] * model_image[i] * model_image[i]]) >>

\* lines 415-426: m is self.draw(star).image
reflux_drawn(d, fit, m) ==
    IF m.err # "ok" THEN m
    ELSE Ok(reflux_starfit(d, fit, m.val, flux_ratio_of(d.weight, d.image, m.val)))

\* the flux-only branch
reflux_flux(c, d, fit, pixels) == reflux_drawn(d, fit, draw(c, fit, pixels))

(* ------------------------- the call stack ------------------------------ *)

NoResults == [ params |-> <<>>, success |-> TRUE, chisqr |-> 0 ]

\* a frame of fit, initialize, reflux or draw: the arguments and the locals;
\* arg is fastfit as the caller passed it, fastfit the local fit rebinds
Frame(fn, star, fastfit, fit_center) ==
    [ fn |-> fn, pc |-> "start", star |-> star, fastfit |-> fastfit, arg |-> fastfit,
      fit_center |-> fit_center, vals |-> <<>>, lm |-> <<>>,
      results |-> NoResults, mode |-> "", ret |-> star ]

Top == stack[Len(stack)]
Running == Len(stack) > 0
At(fn, pc) == Running /\ Top.fn = fn /\ Top.pc = pc

SetTop(f) == [stack EXCEPT ![Len(stack)] = f]
Push(f, callee) == Append(SetTop(f), callee)
Pop == SubSeq(stack, 1, Len(stack) - 1)

\* what the frame returns: initialize returns its local star
RetVal(f) == IF f.fn = "initialize" THEN f.star ELSE f.ret

\* store of an object: a new reference extends the heap
Put(h, ref, d) == IF ref = Len(h) + 1 THEN Append(h, d) ELSE [h EXCEPT ![ref] = d]

Log(e) == trace' = Append(trace, e)

\* no function catches: the exception reaches the caller, who keeps its Star
Raise(e) ==
    /\ stack' = <<>>
    /\ result' = [ kind |-> "error", err |-> e, star |-> cur ]
    /\ UNCHANGED <<cfg, other, heap, cur, calls, entry, lineage>>

(* ------------------------- the caller ---------------------------------- *)

FastfitArgs == { NoneV, Some(TRUE), Some(FALSE) }

\* params the caller's Star comes with: unset, a round profile in either
\* layout and, in the unnormalized basis, a sheared one (e0 = 2, e2 = 1)
InputParams(c) ==
    { NoneV, <<Unit, 0, 0>>, <<0, 0, Unit, 0, 0>> }
       \cup (IF ~c.unnormalized_basis THEN {}
             ELSE IF c.force_model_center THEN { <<2 * Unit, 0, Unit>> }
             ELSE { <<0, 0, 2 * Unit, 0, Unit>> })

InputFits(c) ==
    { StarFit(p, Unit, <<0, 0>>, NoneV, NoneV, a, a) : p \in InputParams(c), a \in Blocks }

Init ==
    /\ cfg \in { Model(f, m, u) : f \in BOOLEAN, m \in BOOLEAN, u \in BOOLEAN }
    /\ \E image \in Images, weight \in Weights, mom \in DataMoments, flag \in Flags,
          cached \in BOOLEAN :
          /\ cached => flag = 0
          /\ heap = << StarData(image, weight, IF cached THEN Some(mom) ELSE NoneV,
                                mom \o <<flag>>) >>
    /\ cur \in { Star(1, f) : f \in InputFits(cfg) }
    /\ stack = <<>>
    /\ result = [ kind |-> "none", err |-> "", star |-> cur ]
    /\ calls = 0
    /\ trace = <<>>
    /\ entry = [ op |-> "", star |-> cur, data |-> heap[1], fastfit |-> NoneV ]
    /\ lineage = "input"
    /\ other = NoneV

\* the caller calls op on its Star; objects it no longer refers to are dropped
Call(op, fastfit, fit_center) ==
    /\ ~Running
    /\ calls < MaxCalls
    /\ LET star == Star(1, cur.fit)
       IN  /\ heap' = << heap[cur.data] >>
           /\ cur' = star
           /\ stack' = << Frame(op, star, fastfit, fit_center) >>
           /\ entry' = [ op |-> op, star |-> star, data |-> heap[cur.data],
                          fastfit |-> fastfit ]
           /\ result' = [ kind |-> "none", err |-> "", star |-> star ]
    /\ calls' = calls + 1
    /\ trace' = << op >>
    /\ UNCHANGED <<cfg, other, lineage>>

CallFit == \E ff \in FastfitArgs : Call("fit", ff, FALSE)
CallInitialize == Call("initialize", NoneV, FALSE)
CallReflux == \E fc \in BOOLEAN : Call("reflux", NoneV, fc)
CallDraw == Call("draw", NoneV, FALSE)

\* a Star is laid out by fit once fit returned it, or initialize seeded it
Lineage(f) ==
    IF f.fn = "fit" \/ (f.fn = "initialize" /\ IsNone(entry.star.fit.params))
    THEN "fitted" ELSE lineage

\* return: the value goes to the calling frame's star, or to the caller
Return ==
    /\ Running
    /\ Top.pc = "ret"
    /\ IF Len(stack) = 1
       THEN /\ stack' = <<>>
            /\ result' = [ kind |-> "ok", err |-> "", star |-> RetVal(Top) ]
            /\ cur' = IF Top.fn = "draw" THEN cur ELSE RetVal(Top)
            /\ lineage' = Lineage(Top)
       ELSE /\ stack' = [ Pop EXCEPT ![Len(stack) - 1].star = RetVal(Top) ]
            /\ UNCHANGED <<result, cur, lineage>>
    /\ Log("return:" \o Top.fn)
    /\ UNCHANGED <<cfg, other, heap, calls, entry>>

(* ------------------------- fit ----------------------------------------- *)

\* lines 314-318: resolve fastfit, call initialize when hasattr finds no 'hsm'
FitStart ==
    /\ At("fit", "start")
    /\ LET f == [Top EXCEPT !.fastfit = Some(effective_fastfit(cfg, Top.fastfit)),
                            !.pc = "dispatch"]
       IN  IF ~hasattr_hsm(heap[Top.star.data])
           THEN /\ stack' = Push(f, Frame("initialize", Top.star, NoneV, FALSE))
                /\ Log("fit:initialize")
           ELSE /\ stack' = SetTop(f)
                /\ Log("fit:dispatch")
    /\ UNCHANGED <<cfg, other, heap, cur, result, calls, entry, lineage>>

\* line 321: flux, du, dv, scale, g1, g2 = self.moment_fit(star)
FitMoment ==
    /\ At("fit", "dispatch")
    /\ Val(Top.fastfit)
    /\ Log("moment_fit")
    /\ \E est \in RefEstimates :
          LET r == moment_fit(cfg, heap[Top.star.data].hsm, Top.star.fit, est)
          IN  IF r.err # "ok" THEN Raise(r.err)
              ELSE /\ stack' = SetTop([Top EXCEPT !.vals = r.val, !.pc = "pack"])
                   /\ UNCHANGED <<cfg, other, heap, cur, result, calls, entry, lineage>>

\* line 278: params = self._lmfit_params(star)
FitLmfitParams ==
    /\ At("fit", "dispatch")
    /\ ~Val(Top.fastfit)
    /\ Log("lmfit_params")
    /\ \E est \in RefEstimates :
          LET r == _lmfit_params(cfg, heap[Top.star.data].hsm, Top.star.fit,
                                 est, TRUE, TRUE, TRUE)
          IN  IF r.err # "ok" THEN Raise(r.err)
              ELSE /\ stack' = SetTop([Top EXCEPT !.lm = r.val, !.pc = "minimize"])
                   /\ UNCHANGED <<cfg, other, heap, cur, result, calls, entry, lineage>>

\* lines 261, 279, 405: results = lmfit.minimize(self._lmfit_resid, params, ...)
Minimize ==
    /\ Running
    /\ Top.pc = "minimize"
    /\ \E move \in MinMoves, success \in BOOLEAN, chisqr \in MinChisqr :
          stack' = SetTop([Top EXCEPT !.results = _lmfit_minimize(Top.lm, move, success, chisqr),
                                      !.pc = "minimized"])
    /\ Log("minimize")
    /\ UNCHANGED <<cfg, other, heap, cur, result, calls, entry, lineage>>

\* lines 281-285: the values of the results, RuntimeError unless results.success
FitLmfitCheck ==
    /\ At("fit", "minimized")
    /\ Log("lmfit")
    /\ LET r == lmfit(Top.results)
       IN  IF r.err # "ok" THEN Raise(r.err)
           ELSE /\ stack' = SetTop([Top EXCEPT !.vals = r.val, !.pc = "pack"])
                /\ UNCHANGED <<cfg, other, heap, cur, result, calls, entry, lineage>>

\* lines 324-341: the StarFit with chisq and dof, and the Star returned
FitPack ==
    /\ At("fit", "pack")
    /\ Log("fit:pack")
    /\ \E pixels \in Profiles :
          LET r == fit_pack(cfg, heap[Top.star.data], Top.vals, pixels)
          IN  IF r.err # "ok" THEN Raise(r.err)
              ELSE /\ stack' = SetTop([Top EXCEPT !.ret = Star(Top.star.data, r.val),
                                                  !.pc = "ret"])
                   /\ UNCHANGED <<cfg, other, heap, cur, result, calls, entry, lineage>>

(* ------------------------- initialize ---------------------------------- *)

\* line 352 and with_hsm: measure the data's moments into a copy of the data
InitWithHsm ==
    /\ At("initialize", "start")
    /\ LET d == heap[Top.star.data]
       IN  IF hasattr_hsm(d)
           THEN /\ stack' = SetTop([Top EXCEPT !.pc = "seed"])
                /\ Log("with_hsm:cached")
                /\ UNCHANGED <<cfg, other, heap, cur, result, calls, entry, lineage>>
           ELSE /\ Log("with_hsm:measure")
                /\ IF d.est[7] # 0 THEN Raise(with_hsm_error)
                   ELSE LET sd == with_hsm_target(heap, Top.star.data)
                        IN  /\ heap' = Put(heap, sd, [d EXCEPT !.hsm = Some(SubSeq(d.est, 1, 6))])
                            /\ stack' = SetTop([Top EXCEPT !.star = Star(sd, Top.star.fit),
                                                           !.pc = "seed"])
                            /\ UNCHANGED <<cfg, other, cur, result, calls, entry, lineage>>

\* lines 353-361: a star without params gets the default fit and a fast fit
InitSeed ==
    /\ At("initialize", "seed")
    /\ IF IsNone(Top.star.fit.params)
       THEN LET star == Star(Top.star.data, default_fit(cfg))
            IN  stack' = Push([Top EXCEPT !.star = star, !.pc = "reflux"],
                              Frame("fit", star, Some(TRUE), FALSE))
       ELSE stack' = SetTop([Top EXCEPT !.pc = "reflux"])
    /\ Log("initialize:seed")
    /\ UNCHANGED <<cfg, other, heap, cur, result, calls, entry, lineage>>

\* line 376: star = self.reflux(star, fit_center=False)
InitReflux ==
    /\ At("initialize", "reflux")
    /\ stack' = Push([Top EXCEPT !.pc = "ret"],
                     Frame("reflux", Top.star, NoneV, initialize_fit_center))
    /\ Log("initialize:reflux")
    /\ UNCHANGED <<cfg, other, heap, cur, result, calls, entry, lineage>>

(* ------------------------- reflux -------------------------------------- *)

\* lines 402-404: the flux+center branch builds the minimizer's parameters
RefluxCenterParams ==
    /\ At("reflux", "start")
    /\ do_center(cfg, Top.fit_center)
    /\ Log("reflux:center")
    /\ \E est \in RefEstimates :
          LET r == _lmfit_params(cfg, heap[Top.star.data].hsm, Top.star.fit,
                                 est, FALSE, TRUE, TRUE)
          IN  IF r.err # "ok" THEN Raise(r.err)
              ELSE /\ stack' = SetTop([Top EXCEPT !.lm = r.val, !.mode = "center",
                                                  !.pc = "minimize"])
                   /\ UNCHANGED <<cfg, other, heap, cur, result, calls, entry, lineage>>

\* lines 406-413: the Star of the flux+center branch
RefluxCenterDone ==
    /\ At("reflux", "minimized")
    /\ stack' = SetTop([Top EXCEPT
                   !.ret = Star(Top.star.data,
                                reflux_center(heap[Top.star.data], Top.star.fit, Top.results)),
                   !.pc = "ret"])
    /\ Log("reflux:center:done")
    /\ UNCHANGED <<cfg, other, heap, cur, result, calls, entry, lineage>>

\* lines 414-426: the flux-only branch
RefluxFluxOnly ==
    /\ At("reflux", "start")
    /\ ~do_center(cfg, Top.fit_center)
    /\ Log("reflux:flux")
    /\ \E pixels \in Profiles :
          LET r == reflux_flux(cfg, heap[Top.star.data], Top.star.fit, pixels)
          IN  IF r.err # "ok" THEN Raise(r.err)
              ELSE /\ stack' = SetTop([Top EXCEPT !.ret = Star(Top.star.data, r.val),
                                                  !.mode = "flux", !.pc = "ret"])
                   /\ UNCHANGED <<cfg, other, heap, cur, result, calls, entry, lineage>>

(* ------------------------- draw ---------------------------------------- *)

\* lines 169-173: a new StarData with the rendered image, the same fit
Draw ==
    /\ At("draw", "start")
    /\ Log("draw")
    /\ \E pixels \in Profiles, ref \in RefMoments, flag \in Flags :
          LET r == draw(cfg, Top.star.fit, pixels)
              d == heap[Top.star.data]
          IN  IF r.err # "ok" THEN Raise(r.err)
              ELSE /\ heap' = Append(heap, StarData(r.val, d.weight, NoneV, ref \o <<flag>>))
                   /\ stack' = SetTop([Top EXCEPT !.ret = Star(Len(heap) + 1, Top.star.fit),
                                                  !.pc = "ret"])
                   /\ UNCHANGED <<cfg, other, cur, result, calls, entry, lineage>>

(* ------------------------- specification ------------------------------- *)

Next ==
    \/ CallFit
    \/ CallInitialize
    \/ CallReflux
    \/ CallDraw
    \/ FitStart
    \/ FitMoment
    \/ FitLmfitParams
    \/ Minimize
    \/ FitLmfitCheck
    \/ FitPack
    \/ InitWithHsm
    \/ InitSeed
    \/ InitReflux
    \/ RefluxCenterParams
    \/ RefluxCenterDone
    \/ RefluxFluxOnly
    \/ Draw
    \/ Return

Spec == Init /\ [][Next]_vars

\* the events the operations log, one at every step of a running call
Events ==
    { "draw", "fit:dispatch", "fit:initialize", "fit:pack", "initialize:reflux",
      "initialize:seed", "lmfit", "lmfit_params", "minimize", "moment_fit",
      "reflux:center", "reflux:center:done", "reflux:flux", "with_hsm:cached",
      "with_hsm:measure", "return:fit", "return:initialize", "return:reflux",
      "return:draw" }

\* a step of the running call
Advance == Running /\ \E e \in Events : Log(e)

\* the operations are synchronous and the collaborators return: a call that
\* is running takes its next step
SpecFair == Spec /\ WF_trace(Advance)

TypeOK ==
    /\ calls \in 0..MaxCalls
    /\ Len(stack) <= 5
    /\ result.kind \in {"none", "ok", "error"}

(* ------------------- the basis conversions alone ---------------------- *)

\* The two static conversions applied to a (scale, g1, g2) at resolution
\* Fine: cur is the input, result the outcome of the last conversion, calls
\* the number of conversions applied.

\* scales 0.5, 1.0, 1.5 and shears with components in [-0.5, 0.5]
BasisInputs ==
    { <<scale, g1, g2>> :
         scale \in { Fine \div 2, Fine, (3 * Fine) \div 2 },
         g1 \in { k * (Fine \div 10) : k \in -5..5 },
         g2 \in { k * (Fine \div 10) : k \in -5..5 } }

InitBasis ==
    /\ cfg = Model(FALSE, FALSE, TRUE)
    /\ heap = <<>>
    /\ cur \in BasisInputs
    /\ stack = <<>>
    /\ result = Ok(cur)
    /\ calls = 0
    /\ trace = <<>>
    /\ entry = cur
    /\ lineage = "input"
    /\ other = NoneV

\* e0, e1, e2 = convert_to_unnormalized_basis(scale, g1, g2)
ConvertTo ==
    /\ calls = 0
    /\ result' = convert_to_unnormalized_basis_at(Fine, cur[1], cur[2], cur[3])
    /\ calls' = 1
    /\ trace' = Append(trace, "convert_to_unnormalized_basis")
    /\ UNCHANGED <<cfg, other, heap, cur, stack, entry, lineage>>

\* scale, g1, g2 = convert_from_unnormalized_basis(e0, e1, e2)
ConvertFrom ==
    /\ calls = 1
    /\ result.err = "ok"
    /\ result' = convert_from_unnormalized_basis_at(Fine, result.val[1], result.val[2],
                                                    result.val[3])
    /\ calls' = 2
    /\ trace' = Append(trace, "convert_from_unnormalized_basis")
    /\ UNCHANGED <<cfg, other, heap, cur, stack, entry, lineage>>

NextBasis == ConvertTo \/ ConvertFrom

SpecBasis == InitBasis /\ [][NextBasis]_vars

(* ------------------- two workers on one Model ------------------------- *)

\* Two workers share the Model and the heap of StarData objects; each has
\* its own Star and its own call stack and makes one call.  One worker runs
\* at a time (the variables of the call stack are its own); other holds the
\* suspended one.  A switch is possible between any two steps.

Worker(id, star, data) ==
    [ id |-> id, stack |-> <<>>, cur |-> star,
      result |-> [ kind |-> "none", err |-> "", star |-> star ],
      calls |-> 0, trace |-> <<>>,
      entry |-> [ op |-> "", star |-> star, data |-> data, fastfit |-> NoneV ],
      lineage |-> "input" ]

\* fits of the two Stars: params unset, or set in the layout of the Model
WorkerFits(c) ==
    { f \in InputFits(c) :
         /\ IsNone(f.alpha)
         /\ ~IsNone(f.params) => Len(f.params) = c.nparams }

\* one StarData for both Stars, or one for each
InitWorkers ==
    /\ cfg \in { Model(FALSE, m, FALSE) : m \in BOOLEAN }
    /\ \E mom \in DataMoments, flag \in Flags :
          heap = << StarData([i \in Pix |-> 2 * Unit * i], [i \in Pix |-> Unit],
                             NoneV, mom \o <<flag>>),
                    StarData([i \in Pix |-> Unit], [i \in Pix |-> Unit],
                             NoneV, mom \o <<0>>) >>
    /\ \E f1 \in WorkerFits(cfg), f2 \in WorkerFits(cfg), d2 \in {1, 2} :
          /\ ~IsNone(f2.params)
          /\ cur = Star(1, f1)
          /\ other = Worker(2, Star(d2, f2), heap[d2])
    /\ stack = <<>>
    /\ result = [ kind |-> "none", err |-> "", star |-> cur ]
    /\ calls = 0
    /\ trace = <<>>
    /\ entry = [ op |-> "", star |-> cur, data |-> heap[1], fastfit |-> NoneV ]
    /\ lineage = "input"

\* the running worker calls op on its Star
CallShared(op, fastfit, fit_center) ==
    /\ ~Running
    /\ calls = 0
    /\ stack' = << Frame(op, cur, fastfit, fit_center) >>
    /\ entry' = [ op |-> op, star |-> cur, data |-> heap[cur.data], fastfit |-> fastfit ]
    /\ result' = [ kind |-> "none", err |-> "", star |-> cur ]
    /\ calls' = 1
    /\ trace' = << op >>
    /\ UNCHANGED <<cfg, other, heap, cur, lineage>>

\* the first worker makes any call, the second one a fit or a draw
WorkerCall ==
    \/ CallShared("fit", NoneV, FALSE)
    \/ CallShared("draw", NoneV, FALSE)
    \/ /\ other.id = 2
       /\ \/ \E ff \in {Some(TRUE), Some(FALSE)} : CallShared("fit", ff, FALSE)
          \/ CallShared("initialize", NoneV, FALSE)
          \/ \E fc \in BOOLEAN : CallShared("reflux", NoneV, fc)

\* the running worker
Me ==
    [ id |-> 3 - other.id, stack |-> stack, cur |-> cur, result |-> result,
      calls |-> calls, trace |-> trace, entry |-> entry, lineage |-> lineage ]

\* the scheduler suspends the running worker and resumes the other
Switch ==
    /\ other' = Me
    /\ stack' = other.stack
    /\ cur' = other.cur
    /\ result' = other.result
    /\ calls' = other.calls
    /\ trace' = other.trace
    /\ entry' = other.entry
    /\ lineage' = other.lineage
    /\ UNCHANGED <<cfg, heap>>

NextWorkers ==
    \/ WorkerCall
    \/ Switch
    \/ FitStart
    \/ FitMoment
    \/ FitLmfitParams
    \/ Minimize
    \/ FitLmfitCheck
    \/ FitPack
    \/ InitWithHsm
    \/ InitSeed
    \/ InitReflux
    \/ RefluxCenterParams
    \/ RefluxCenterDone
    \/ RefluxFluxOnly
    \/ Draw
    \/ Return

SpecWorkers == InitWorkers /\ [][NextWorkers]_vars

(* ------------------------- observations -------------------------------- *)

Frames == 1..Len(stack)
InTrace(e) == \E i \in 1..Len(trace) : trace[i] = e
Finished == ~Running /\ calls > 0
Succeeded(op) == Finished /\ entry.op = op /\ result.kind = "ok"
Failed(op) == Finished /\ entry.op = op /\ result.kind = "error"

\* number of pixels with nonzero weight of a Star's data
Nonzero(star) == count_nonzero(heap[star.data].weight)

\* the layout of the configuration: length of params, and the fixed center
LayoutOK(fit) ==
    IF cfg.force_model_center
    THEN Len(fit.params) = 3
    ELSE Len(fit.params) = 5 /\ fit.center = <<0, 0>>

(* ------------------------- C1 ------------------------------------------ *)

\* C1: a Star that fit returns has params = [scale, g1, g2] and center =
\* (du, dv) of the fitted values when force_model_center is true, and params =
\* [du, dv, scale, g1, g2] and center = (0, 0) when it is false; a Star that
\* fit returned or initialize seeded keeps that layout through every later call.
C1_Layout ==
    /\ \A i \in Frames :
          (stack[i].fn = "fit" /\ stack[i].pc = "ret") =>
             LET v == stack[i].vals
                 f == stack[i].ret.fit
             IN  /\ LayoutOK(f)
                 /\ IF cfg.force_model_center
                    THEN f.params = <<v[4], v[5], v[6]>> /\ f.center = <<v[2], v[3]>>
                    ELSE f.params = <<v[2], v[3], v[4], v[5], v[6]>>
    /\ lineage = "fitted" => LayoutOK(cur.fit)
    /\ (lineage = "fitted" /\ result.kind = "ok") => LayoutOK(result.star.fit)

\* a fitted Star went through a later reflux, in either configuration
C1_Witness ==
    /\ Succeeded("reflux")
    /\ lineage = "fitted"
    /\ calls = MaxCalls
    /\ ~cfg.force_model_center
    /\ cur.fit.params[1] # 0

(* ------------------------- C2 ------------------------------------------ *)

\* C2: every Star fit returns has dof = nonzero-weight pixels - 3 when
\* force_model_center is true and - 5 when it is false.
C2_FitDof ==
    /\ \A i \in Frames :
          (stack[i].fn = "fit" /\ stack[i].pc = "ret") =>
             stack[i].ret.fit.dof =
                Some(Nonzero(stack[i].ret) - (IF cfg.force_model_center THEN 3 ELSE 5))
    /\ Succeeded("fit") =>
          result.star.fit.dof =
             Some(Nonzero(result.star) - (IF cfg.force_model_center THEN 3 ELSE 5))

\* a precise fit returned for a free-center model, after an earlier call
C2_Witness ==
    /\ Succeeded("fit")
    /\ calls = MaxCalls
    /\ InTrace("minimize")
    /\ ~cfg.force_model_center

(* ------------------------- C3 ------------------------------------------ *)

\* C3: reflux runs the flux+center branch exactly when fit_center and
\* force_model_center are both true, with dof = nonzero-weight pixels - 3;
\* otherwise it runs the flux-only branch, with dof = nonzero-weight pixels - 1.
C3_RefluxMode ==
    \A i \in Frames :
       (stack[i].fn = "reflux" /\ stack[i].pc # "start") =>
          /\ stack[i].mode = (IF stack[i].fit_center /\ cfg.force_model_center
                              THEN "center" ELSE "flux")
          /\ stack[i].pc = "ret" =>
                stack[i].ret.fit.dof =
                   Some(Nonzero(stack[i].star) - (IF stack[i].mode = "center" THEN 3 ELSE 1))

\* a flux+center reflux returned
C3_Witness ==
    /\ At("reflux", "ret")
    /\ Top.mode = "center"
    /\ Top.fit_center

(* ------------------------- C4 ------------------------------------------ *)

\* C4: the StarFit reflux returns has the params, alpha and beta of the input
\* StarFit, on the same data; in the flux-only branch the center is the input's.
C4_RefluxFrame ==
    \A i \in Frames :
       (stack[i].fn = "reflux" /\ stack[i].pc = "ret") =>
          /\ stack[i].ret.data = stack[i].star.data
          /\ stack[i].ret.fit.params = stack[i].star.fit.params
          /\ stack[i].ret.fit.alpha = stack[i].star.fit.alpha
          /\ stack[i].ret.fit.beta = stack[i].star.fit.beta
          /\ stack[i].mode = "flux" => stack[i].ret.fit.center = stack[i].star.fit.center

\* a flux-only reflux returned for a StarFit that carries alpha and beta
C4_Witness ==
    /\ At("reflux", "ret")
    /\ Top.mode = "flux"
    /\ ~IsNone(Top.star.fit.alpha)
    /\ Top.ret.fit.flux # Top.star.fit.flux

(* ------------------------- C5 ------------------------------------------ *)

\* C5: while a call runs and after it returned or failed, the caller's input
\* Star has the fit and the data (image, weight, properties) it had at the call;
\* draw returns its Star on a new StarData.
C5_InputUnchanged ==
    calls > 0 =>
       /\ heap[entry.star.data] = entry.data
       /\ (Running \/ result.kind = "error") => cur = entry.star
       /\ Succeeded("draw") =>
             /\ result.star.data # entry.star.data
             /\ result.star.fit = entry.star.fit
             /\ cur = entry.star

\* initialize returned for a star whose data had no cached moments
C5_Witness ==
    /\ Succeeded("initialize")
    /\ IsNone(entry.data.hsm)
    /\ ~IsNone(heap[result.star.data].hsm)

(* ------------------------- C6 ------------------------------------------ *)

\* C6: when the estimator flags the star's data, initialize fails with
\* ModelFitError and produces no Star: the caller keeps its Star, and no
\* StarData with partly stored moments exists.
C6_InitializeModelFitError ==
    (Finished /\ entry.op = "initialize" /\ entry.data.est[7] # 0) =>
       /\ result.kind = "error"
       /\ result.err = "ModelFitError"
       /\ cur = entry.star
       /\ heap = << entry.data >>

(* ------------------------- C7 ------------------------------------------ *)

\* C7: once the minimizer reported non-success, the operation that invoked it
\* goes no further: neither fit nor reflux gets to build or return a Star.
C7_MinimizerFailureRaises ==
    \A i \in Frames :
       (stack[i].pc \in {"pack", "ret"} /\ stack[i].results # NoResults) =>
          stack[i].results.success

(* ------------------------- C8 ------------------------------------------ *)

\* C8: a fit called by the caller calls initialize exactly when the star's
\* data has no cached moment tuple; with the tuple cached it dispatches at
\* once, with no measurement of the data and no flux-only reflux before.
C8_FitInitializesIffNoMoments ==
    (entry.op = "fit" /\ Len(trace) >= 2) =>
       /\ (trace[2] = "fit:initialize") <=> IsNone(entry.data.hsm)
       /\ ~IsNone(entry.data.hsm) =>
             /\ ~InTrace("with_hsm:measure")
             /\ ~InTrace("reflux:flux")

(* ------------------------- C9 ------------------------------------------ *)

\* C9: every initialize that returns does so right after a flux-only reflux:
\* the Star it returns has params set and dof = nonzero-weight pixels - 1, and
\* that reflux gave it the params and the center it was called with.
C9_InitializeEndsWithReflux ==
    /\ \A i \in Frames :
          (stack[i].fn = "initialize" /\ stack[i].pc = "ret" /\ i = Len(stack)) =>
             /\ Len(trace) >= 2
             /\ trace[Len(trace)] = "return:reflux"
             /\ trace[Len(trace) - 1] = "reflux:flux"
             /\ ~IsNone(stack[i].star.fit.params)
             /\ stack[i].star.fit.dof = Some(Nonzero(stack[i].star) - 1)
    /\ \A i \in Frames :
          (i > 1 /\ stack[i].fn = "reflux" /\ stack[i - 1].fn = "initialize") =>
             /\ stack[i].star = stack[i - 1].star
             /\ ~stack[i].fit_center
             /\ stack[i].pc = "ret" =>
                   /\ stack[i].mode = "flux"
                   /\ stack[i].ret.fit.params = stack[i].star.fit.params
                   /\ stack[i].ret.fit.center = stack[i].star.fit.center
    /\ Succeeded("initialize") =>
          /\ ~IsNone(result.star.fit.params)
          /\ result.star.fit.dof = Some(Nonzero(result.star) - 1)
          /\ trace[Len(trace) - 2] = "reflux:flux"

\* initialize returned for a star without params, under a forced center
C9_Witness ==
    /\ Succeeded("initialize")
    /\ IsNone(entry.star.fit.params)
    /\ cfg.force_model_center
    /\ result.star.fit.center # <<0, 0>>

(* ------------------------- C10 ----------------------------------------- *)

\* C10: a flux-only reflux holds no minimizer parameters and no minimizer
\* results, and while an initialize is on the call stack no frame above it is
\* at the minimizer; a call of initialize has no minimize step.
C10_NoMinimizerInInitialize ==
    /\ \A i \in Frames :
          (stack[i].fn = "reflux" /\ stack[i].mode = "flux") =>
             stack[i].lm = <<>> /\ stack[i].results = NoResults
    /\ \A i \in Frames, j \in Frames :
          (stack[i].fn = "initialize" /\ j > i) =>
             /\ stack[j].pc \notin {"minimize", "minimized"}
             /\ stack[j].lm = <<>>
             /\ stack[j].results = NoResults
    /\ (calls > 0 /\ entry.op = "initialize") =>
          ~InTrace("minimize") /\ ~InTrace("lmfit_params") /\ ~InTrace("reflux:center")

\* initialize ran to its end, through the nested fit, with a free center
C10_Witness ==
    /\ Succeeded("initialize")
    /\ IsNone(entry.star.fit.params)
    /\ cfg.force_model_center
    /\ ~cfg.fastfit
    /\ InTrace("moment_fit")

(* ------------------------- C11 ----------------------------------------- *)

\* the fit frames that went past the dispatch on fastfit
Dispatched(i) == stack[i].fn = "fit" /\ stack[i].pc \notin {"start", "dispatch"}

\* C11: a fit invocation takes the moment fit when its fastfit argument is
\* true, or is None with the configured flag true, and the nonlinear fit
\* otherwise: on the fast path its six values are what moment_fit returns for
\* its star and it never holds minimizer parameters or results; on the other
\* path the six values are those of the minimizer's results.
C11_FastfitDispatch ==
    /\ \A i \in Frames :
          Dispatched(i) =>
             LET f  == stack[i]
                 ff == IF IsNone(f.arg) THEN cfg.fastfit ELSE Val(f.arg)
             IN  /\ f.fastfit = Some(ff)
                 /\ ff => /\ f.lm = <<>> /\ f.results = NoResults
                          /\ \E ref \in RefMoments :
                                moment_fit(cfg, heap[f.star.data].hsm, f.star.fit,
                                           ref \o <<0>>) = Ok(f.vals)
                 /\ ~ff => /\ f.lm # <<>>
                           /\ f.pc \in {"pack", "ret"} =>
                                 f.results.success /\ f.vals = valuesdict(f.results)
    /\ (calls > 0 /\ entry.op = "fit") =>
          LET ff == IF IsNone(entry.fastfit) THEN cfg.fastfit ELSE Val(entry.fastfit)
          IN  ff => ~InTrace("minimize") /\ ~InTrace("lmfit_params")

\* a fit with fastfit=False returned the minimizer's values on a Model
\* configured with fastfit true
C11_Witness ==
    /\ Succeeded("fit")
    /\ entry.fastfit = Some(FALSE)
    /\ cfg.fastfit
    /\ InTrace("minimize")

(* ------------------------- C12 ----------------------------------------- *)

\* ratios k = p / q of the data to the rendered model
MaxRatio == 4

\* the data of reflux frame f is p/q times the model image m
Proportional(f, m, p, q) ==
    \A i \in Pix : q * heap[f.star.data].image[i] = p * m[i]

\* C12: a flux-only reflux returns the weighted least-squares flux: when the
\* star's image is k = p/q times the model drawn at the star's fit, the flux
\* returned is flux * k; and the chisq returned never exceeds the chi-square
\* of the model drawn at the star's fit before the reflux.
C12_RefluxLeastSquares ==
    \A i \in Frames :
       (stack[i].fn = "reflux" /\ stack[i].pc = "ret" /\ stack[i].mode = "flux") =>
          \A pixels \in Profiles :
             LET f == stack[i]
                 d == heap[f.star.data]
                 m == drawImage(f.star.fit.flux, pixels)
             IN  /\ \A p \in 1..MaxRatio, q \in 1..MaxRatio :
                       Proportional(f, m, p, q) =>
                          f.ret.fit.flux = Pos((f.star.fit.flux * p) \div q)
                 /\ Val(f.ret.fit.chisq) <= chisq_of(d.weight, d.image, m)

\* a flux-only reflux returned for data that is twice the model, and then
\* for data that matches the model
C12_Witness ==
    /\ At("reflux", "ret")
    /\ Top.mode = "flux"
    /\ \E pixels \in Profiles :
          Proportional(Top, drawImage(Top.star.fit.flux, pixels), 2, 1)
    /\ Top.ret.fit.flux = 2 * Top.star.fit.flux

(* ------------------------- C13 ----------------------------------------- *)

\* the tolerance of the round trip, in fixed-point units of resolution Fine
BasisTol == Fine \div 16

Near(a, b) == a - b <= BasisTol /\ b - a <= BasisTol

\* C13: for scale > 0 and g1^2 + g2^2 < 1, convert_to_unnormalized_basis
\* succeeds, and convert_from_unnormalized_basis of its (e0, e1, e2) succeeds
\* and gives back scale, g1 and g2, each within the tolerance.
C13_BasisRoundTrip ==
    /\ calls >= 1 => result.err = "ok"
    /\ calls = 2 =>
          /\ Near(result.val[1], cur[1])
          /\ Near(result.val[2], cur[2])
          /\ Near(result.val[3], cur[3])

\* both conversions were applied to a profile sheared in both components,
\* and the trip is back at the input
C13_Witness ==
    /\ calls = 2
    /\ trace = << "convert_to_unnormalized_basis", "convert_from_unnormalized_basis" >>
    /\ cur[2] # 0 /\ cur[3] # 0
    /\ result.err = "ok"
    /\ Near(result.val[2], cur[2])
    /\ Near(result.val[1], cur[1])

(* ------------------------- C14 ----------------------------------------- *)

\* worker w made its call and it returned
Returned(w, op) ==
    w.calls > 0 /\ w.stack = <<>> /\ w.result.kind = "ok" /\ w.entry.op = op

\* what worker w sees is what it would see alone: its input StarData is as
\* it was at the call, its Star is its own until its call returns, and a
\* draw or a flux-only reflux returns what the operation computes from the
\* worker's own input
Isolated(w) ==
    w.calls > 0 =>
       /\ heap[w.entry.star.data] = w.entry.data
       /\ (w.stack # <<>> \/ w.result.kind = "error") => w.cur = w.entry.star
       /\ Returned(w, "draw") =>
             /\ w.result.star.fit = w.entry.star.fit
             /\ \E pixels \in Profiles :
                   Ok(heap[w.result.star.data].image) = draw(cfg, w.entry.star.fit, pixels)
       /\ (Returned(w, "reflux") /\ w.trace[2] = "reflux:flux") =>
             /\ w.result.star.data = w.entry.star.data
             /\ \E pixels \in Profiles :
                   Ok(w.result.star.fit) = reflux_flux(cfg, w.entry.data, w.entry.star.fit,
                                                       pixels)

\* a step writes neither the Model nor a StarData that exists
KeepsShared ==
    /\ cfg' = cfg
    /\ Len(heap') >= Len(heap)
    /\ \A r \in 1..Len(heap) : heap'[r] = heap[r]

\* C14: with two workers calling operations on different Stars of one Model,
\* under every interleaving of their steps, no step writes the Model
\* configuration or an existing StarData, and each worker, running or
\* suspended, finds its input as it passed it and gets the outcome computed
\* from its own input, whether or not the other worker's call failed.
C14_WorkersIsolated ==
    /\ [](Isolated(Me) /\ Isolated(other))
    /\ [][KeepsShared]_vars

\* the second worker's fit started and failed between two steps of the first
\* worker's fit, which then returned: the first worker's two copies of its
\* StarData lie around the second worker's copy in the heap
C14_Witness ==
    /\ Returned(Me, "fit")
    /\ Me.id = 1
    /\ other.result.kind = "error"
    /\ other.entry.op = "fit"
    /\ other.entry.star.data = 2
    /\ Len(heap) = 5
    /\ heap[3].image = heap[1].image
    /\ heap[4].image = heap[2].image
    /\ heap[5].image = heap[1].image

(* ------------------------- C15 ----------------------------------------- *)

\* frame i is about to build the minimizer's parameter set
BuildsParams(i) ==
    \/ stack[i].fn = "reflux" /\ stack[i].pc = "start"
                              /\ do_center(cfg, stack[i].fit_center)
    \/ stack[i].fn = "fit" /\ stack[i].pc = "dispatch" /\ ~Val(stack[i].fastfit)

C16_MomentFitNormalizes ==
    \A i \in Frames :
       (Dispatched(i) /\ Val(stack[i].fastfit) /\ cfg.unnormalized_basis) =>
          LET f == stack[i]
              p == UnpackFit(cfg, f.star.fit).val
              n == convert_from_unnormalized_basis(p[3], p[4], p[5]).val
          IN  \E ref \in RefMoments :
                 moment_fit_update(cfg, Val(heap[f.star.data].hsm), ref \o <<0>>,
                                   f.star.fit.flux, p[1], p[2], n[1], n[2], n[3])
                    = Ok(f.vals)

(* ------------------------- C17 ----------------------------------------- *)

\* fit frame i is about to run the moment fit on a star whose model renders
\* and whose data has its moments
MomentFitReady(i) ==
    /\ stack[i].fn = "fit" /\ stack[i].pc = "dispatch" /\ Val(stack[i].fastfit)
    /\ ~IsNone(heap[stack[i].star.data].hsm)
    /\ getProfile(cfg, stack[i].star.fit.params).err = "ok"

\* C17: for every measurement of the rendered model that carries a nonzero
\* flag, whatever its other fields are, the moment fit fails with
\* ModelFitError; and a fit that ended in its moment fit returned no Star:
\* the caller has the failure and keeps its Star.
C17_FlagRaisesModelFitError ==
    /\ \A i \in Frames :
          MomentFitReady(i) =>
             \A est \in RefEstimates :
                est[7] # 0 =>
                   moment_fit(cfg, heap[stack[i].star.data].hsm, stack[i].star.fit,
                              est).err = "ModelFitError"
    /\ (Finished /\ entry.op = "fit" /\ trace[Len(trace)] = "moment_fit") =>
          /\ result.kind = "error"
          /\ cur = entry.star

(* ------------------------- C18 ----------------------------------------- *)

\* C18: an initialize called on a star whose data holds the cached moment
\* tuple does not measure the data: the estimator is not run on it, no
\* failure of initialize is the one of with_hsm, and the Star returned is on
\* the data it came with, with the same tuple.
C18_InitializeUsesCachedMoments ==
    (calls > 0 /\ entry.op = "initialize" /\ ~IsNone(entry.data.hsm)) =>
       /\ ~InTrace("with_hsm:measure")
       /\ Failed("initialize") => trace[Len(trace)] # "with_hsm:measure"
       /\ Succeeded("initialize") =>
             /\ result.star.data = entry.star.data
             /\ heap[result.star.data].hsm = entry.data.hsm

(* ------------------------- C19 ----------------------------------------- *)

\* the names of the six parameters, in the order of the basis
ParamNames ==
    IF cfg.unnormalized_basis THEN << "flux", "du", "dv", "e0", "e1", "e2" >>
    ELSE << "flux", "du", "dv", "scale", "g1", "g2" >>

\* the bound of a shape component: 0.7, or 5 in the unnormalized basis
ShapeBound == IF cfg.unnormalized_basis THEN 5 * Unit ELSE (7 * Unit) \div 10

\* the order and the bounds of a parameter set
ParamsShape(lm) ==
    /\ Len(lm) = 6
    /\ \A k \in 1..6 : lm[k].name = ParamNames[k]
    /\ lm[1].min = Some(0) /\ IsNone(lm[1].max)
    /\ \A k \in {2, 3} : IsNone(lm[k].min) /\ IsNone(lm[k].max)
    /\ \A k \in {5, 6} : lm[k].min = Some(0 - ShapeBound) /\ lm[k].max = Some(ShapeBound)

\* C19: every parameter set given to the minimizer, and the one it returns,
\* lists flux, du, dv, scale or e0 and the two shape components in this
\* order, flux bounded below by 0, du and dv unbounded, the shape components
\* within 0.7 (5 in the unnormalized basis); fit lets all six vary, reflux
\* only flux, du and dv, with scale and shape held at the star's values.
C19_ParameterSet ==
    \A i \in Frames :
       stack[i].lm # <<>> =>
          LET f == stack[i]
          IN  /\ ParamsShape(f.lm)
              /\ f.fn \in {"fit", "reflux"}
              /\ \A k \in 1..3 : f.lm[k].vary
              /\ \A k \in 4..6 : f.lm[k].vary = (f.fn = "fit")
              /\ f.fn = "reflux" =>
                    \A k \in 4..6 :
                       f.lm[k].value = UnpackFit(cfg, f.star.fit).val[k - 1]
              /\ f.pc # "minimize" =>
                    /\ ParamsShape(f.results.params)
                    /\ f.fn = "reflux" =>
                          \A k \in 4..6 : f.results.params[k].value = f.lm[k].value

\* a flux+center reflux in the unnormalized basis came back from the
\* minimizer with a new flux and center
C19_Witness ==
    /\ At("reflux", "minimized")
    /\ cfg.unnormalized_basis
    /\ Top.results.params[1].value # Top.lm[1].value
    /\ Top.results.params[2].value # Top.lm[2].value
    /\ Top.results.params[4].value = Top.lm[4].value

(* ------------------------- C20 ----------------------------------------- *)

\* the number of active invocations of fn
Active(fn) == Cardinality({ i \in Frames : stack[i].fn = fn })

\* C20: at no point are more than two invocations of fit or more than two of
\* initialize active, and every call that is running comes to its end, with
\* a Star or with a failure.
C20_BoundedRecursion ==
    /\ [](Active("fit") <= 2 /\ Active("initialize") <= 2)
    /\ [](Running => <>Finished)

\* a fit on a star without params: fit, initialize, the fit that initialize
\* nests, and the initialize of that fit are active together
C20_Witness ==
    /\ Active("fit") = 2
    /\ Active("initialize") = 2
    /\ entry.op = "fit"
    /\ IsNone(entry.star.fit.params)
    /\ Top.fn = "reflux"

(* ------------------------- C21 ----------------------------------------- *)

\* alpha and beta of a StarFit are both unset
NoBlocks(f) == IsNone(f.alpha) /\ IsNone(f.beta)

\* the caller's last call was a fit, and it returned a Star
FitReturned == ~Running /\ entry.op = "fit" /\ result.kind = "ok"

\* C21: the StarFit of every Star fit returns has alpha and beta unset, whatever
\* the input StarFit held; and once a fit has returned to the caller, the
\* caller's Star has alpha and beta unset through every later call, reflux
\* included.
C21_FitDropsBlocks ==
    /\ [](\A i \in Frames :
            (stack[i].fn = "fit" /\ stack[i].pc = "ret") => NoBlocks(stack[i].ret.fit))
    /\ [](FitReturned => [](NoBlocks(cur.fit)))

\* a fit is returning to the caller a Star without alpha and beta, for an input
\* StarFit that had kept both through an earlier reflux
C21_Witness ==
    /\ Len(stack) = 1
    /\ At("fit", "ret")
    /\ calls = MaxCalls
    /\ ~IsNone(entry.star.fit.alpha)
    /\ ~IsNone(entry.star.fit.beta)
    /\ ~IsNone(entry.star.fit.chisq)
    /\ NoBlocks(Top.ret.fit)

====
